---- MODULE Spec2Model ----
(***************************************************************************)
(* PodServe: the service supervision lifecycle (BaseService), the health   *)
(* check registry and its HTTP endpoint (HealthChecker), and the process   *)
(* and command utilities.                                                  *)
(*                                                                         *)
(* The specifications of the module, one per component:                    *)
(*   Spec         - BaseService: start(), service_loop(), stop(), the      *)
(*                  signal handler, as frames of the main thread's stack;  *)
(*   SpecReload   - the same lifecycle without signals, and reload()       *)
(*                  called from a second thread;                           *)
(*   SpecRun      - BaseService.run_subprocess, the subprocess and the     *)
(*                  capture_subprocess_logs worker;                        *)
(*   SpecHealth   - HealthChecker: register_check, is_healthy, is_ready,   *)
(*                  get_detailed_status and the three GET routes;          *)
(*   SpecEndpoint - HealthChecker.start/stop and the listener thread;      *)
(*   SpecTerm     - terminate_process_gracefully against one OS process;   *)
(*   SpecRetry    - run_command_with_retry.                                *)
(***************************************************************************)
EXTENDS Integers, Sequences, FiniteSets, TLC

\* ------------------------------------------------------------------ bounds
MaxProcs == 1        \* daemons start_service() may spawn through run_subprocess
MaxSignals == 2      \* SIGTERM/SIGINT deliveries in one run
MaxStopCalls == 2    \* direct stop() calls made by the embedding program
MaxClock == 2        \* readings of time.time() that differ
MaxTimeout == 3      \* largest timeout passed to terminate_process_gracefully
MaxRetries == 2      \* largest retries passed to run_command_with_retry
MaxLines == 2        \* most lines a subprocess writes to one of its streams
MaxReloads == 1      \* reload() calls made by the embedding program
MaxRequests == 3     \* HTTP requests sent to the health endpoint
MaxEndpointStarts == 2   \* HealthChecker.start() calls

VARIABLES
    \* ---- BaseService (core/service.py)
    service,             \* service_name
    env,                 \* os.environ restricted to the required keys
    config,              \* ConfigManager.config restricted to the required keys
    running,             \* self.running
    shutdown_requested,  \* self.shutdown_requested
    processes,           \* self.processes: list of tracked process handles
    procState,           \* per handle: "none" (not spawned), "alive", "exited"
    sent,                \* per handle: signals sent to it by stop(), in order
    hc_running,          \* self.health_checker.running: the listener is bound
    stack,               \* main thread call stack: frames of start/stop/handler
    ret,                 \* the last call that returned: the function, the value
                         \* ("True", "False", "None") and the position it returned at
    startRet,            \* what start() returned: "none" until it returns
    log,                 \* lifecycle calls in the order they happened
    nSignals,            \* signals delivered so far
    nStopCalls,          \* direct stop() calls so far
    everRunning,         \* self.running was set by start() at some point
    removed,             \* per handle: times service_loop removed it from self.processes
    earlySignal,         \* a signal arrived inside start() before self.running was set
    \* ---- HealthChecker (core/health.py)
    health_checks,       \* self.health_checks: check name -> probe
    probeResult,         \* what each probe does when called now: pass, fail, raise
    health_status,       \* self.health_status
    ready_status,        \* self.ready_status
    last_health_check,   \* self.last_health_check: 0 is None, else the time
    clock,               \* time.time()
    response,            \* what the last query answered; forgotten (op "none")
                         \* as soon as the registry, a probe or the time changes
    \* ---- terminate_process_gracefully (core/utils.py)
    t_timeout,           \* the timeout argument
    t_pc,                \* the position in the function
    t_k,                 \* iterations of `for _ in range(timeout)` completed
    t_proc,              \* the process pid names: "alive" or "gone"
    t_start,             \* what the process was when the function was called
    t_ignores,           \* the process ignores SIGTERM and never exits by itself
    t_sent,              \* the signals os.kill sent, in order
    t_polls,             \* is_process_running calls made by the wait loop
    t_sleeps,            \* time.sleep(1) calls made
    t_last,              \* what the last is_process_running call answered
    t_ret,               \* the value returned, "none" until it returns
    \* ---- run_command_with_retry (core/utils.py)
    r_outcomes,          \* what the i-th subprocess.run of the command does
    r_retries,           \* the retries argument
    r_delay,             \* the delay argument: 0, or 1 for any positive delay
    r_attempt,           \* the loop variable attempt
    r_pc,                \* the position in the function
    r_trace,             \* subprocess.run and time.sleep calls made, in order
    r_ret,               \* the value returned, "none" until it returns
    \* ---- BaseService.run_subprocess and capture_subprocess_logs (core/logging.py)
    background,          \* the background argument
    capture_output,      \* the capture_output argument
    p_spawn,             \* what creating the subprocess does: "ok" or "fail"
    p_rc,                \* the exit status of the subprocess
    p_out,               \* the lines the subprocess writes to stdout: "text", "blank"
    p_err,               \* the lines the subprocess writes to stderr
    p_pc,                \* the position of the caller in run_subprocess
    p_ret,               \* what run_subprocess returned: "none", "True", "False", "process"
    p_wout,              \* stdout lines written so far
    p_werr,              \* stderr lines written so far
    c_pc,                \* the position of the capture worker; "idle": not started
    c_readable,          \* the streams the last select() reported, not read yet
    c_rout,              \* stdout lines taken from the pipe into process.stdout's buffer
    c_rerr,              \* stderr lines taken from the pipe into process.stderr's buffer
    c_lout,              \* stdout lines readline()/read() handed to the worker
    c_lerr,              \* stderr lines readline()/read() handed to the worker
    p_log,               \* the records the logger received, in order
    \* ---- BaseService.reload, called from a thread other than the one in start()
    rl_pc,               \* the position in reload(); "idle": no call under way
    rl_calls,            \* what the current reload() call invoked, in order
    rl_cfg,              \* what configure() did in the current call
    rl_ret,              \* what the last reload() returned, "none" before
    nReloads,            \* reload() calls so far
    \* ---- HealthChecker.start / stop and the listener thread (core/health.py)
    e_pc,                \* the position of the thread that calls start() and stop()
    e_shutdown_request,  \* http_server's shutdown request flag
    e_is_shut_down,      \* http_server's event: serve_forever has left its loop
    e_open,              \* the listening socket is open
    w_pc,                \* the position of the thread running serve_forever
    e_pending,           \* requests that arrived and were not accepted yet
    e_served,            \* requests answered
    e_servedAtStop,      \* requests answered when stop() returned; -1 before
    e_starts             \* HealthChecker.start() calls so far

svcVars == <<service, env, config, running, shutdown_requested, processes,
             procState, sent, hc_running, stack, ret, startRet, log,
             nSignals, nStopCalls, everRunning, removed, earlySignal>>

hVars == <<health_checks, probeResult, health_status, ready_status,
           last_health_check, clock, response>>

tVars == <<t_timeout, t_pc, t_k, t_proc, t_start, t_ignores, t_sent, t_polls, t_sleeps,
           t_last, t_ret>>

rVars == <<r_outcomes, r_retries, r_delay, r_attempt, r_pc, r_trace, r_ret>>

pVars == <<background, capture_output, p_spawn, p_rc, p_out, p_err, p_pc, p_ret,
           p_wout, p_werr, c_pc, c_readable, c_rout, c_rerr, c_lout, c_lerr, p_log>>

\* BaseService without the tracked processes, which run_subprocess extends
svcRest == <<service, env, config, running, shutdown_requested, sent, hc_running,
             stack, ret, startRet, log, nSignals, nStopCalls, everRunning,
                   removed, earlySignal>>

lVars == <<rl_pc, rl_calls, rl_cfg, rl_ret, nReloads>>

eVars == <<e_pc, e_shutdown_request, e_is_shut_down, e_open, w_pc, e_pending,
           e_served, e_servedAtStop, e_starts>>

\* BaseService without its health checker's running flag
svcNoHc == <<service, env, config, running, shutdown_requested, processes, procState,
             sent, stack, ret, startRet, log, nSignals, nStopCalls, everRunning,
             removed, earlySignal>>

vars == <<svcVars, hVars, tVars, rVars, pVars, lVars, eVars>>

\* what a step of one component leaves alone: the other components
notSvc == <<hVars, tVars, rVars, pVars, lVars, eVars>>
notHealth == <<svcVars, tVars, rVars, pVars, lVars, eVars>>
notTerm == <<svcVars, hVars, rVars, pVars, lVars, eVars>>
notRetry == <<svcVars, hVars, tVars, pVars, lVars, eVars>>
notRun == <<svcRest, hVars, tVars, rVars, lVars, eVars>>
notReload == <<hVars, tVars, rVars, pVars, eVars>>
notEndpoint == <<svcNoHc, hVars, tVars, rVars, pVars, lVars>>

\* ------------------------------------------------------------ configuration
Services == {"dns", "certificates"}

\* DNSService.get_required_config_vars / CertificateService.get_required_config_vars
get_required_config_vars(s) ==
    IF s = "dns" THEN {"DNS_DOMAIN"} ELSE {"DOMAIN", "CERTBOT_EMAIL"}

\* ConfigManager.get_service_defaults: the required keys that have a default
get_service_defaults(s) ==
    IF s = "dns" THEN {"DNS_DOMAIN"} ELSE {}

\* ConfigManager.load_environment_variables: os.environ.get(key, default) for
\* the keys with a default, every other environment variable as it is; a key
\* in neither is not in the dict ("none": get() answers None).
load_environment_variables(s, e) ==
    [k \in get_required_config_vars(s) |->
        IF e[k] # "absent" THEN e[k]
        ELSE IF k \in get_service_defaults(s) THEN "set" ELSE "none"]

\* mutant: only a key that is not in the dict counts as missing (`is None`)
validate_required_vars_NoneOnly(c, required) ==
    \A v \in required : c[v] # "none"

\* ConfigManager.validate_required_vars: `not self.get(var)` is true of None
\* and of the empty string.
validate_required_vars(c, required) ==
    \A v \in required : ~(c[v] \in {"none", "empty"})

\* BaseService.validate_configuration (validate_service_config defaults to True)
validate_configuration ==
    validate_required_vars(config, get_required_config_vars(service))

\* ------------------------------------------------------------- call stack
ProcIds == 1..MaxProcs

\* a frame: the function, its position, and its locals (the loop index i, the
\* loop variable cur, the scanned copy snap, a pending exception exc), and of
\* the current pass of service_loop what health_check() answered (hc) and the
\* entries whose poll() answered None (alive)
Frame(fn, pc) ==
    [fn |-> fn, pc |-> pc, i |-> 1, cur |-> 0, snap |-> <<>>, exc |-> FALSE,
     hc |-> "none", alive |-> {}]

Top == stack[Len(stack)]
Active(fn, pc) == stack # <<>> /\ Top.fn = fn /\ Top.pc = pc
Popped == SubSeq(stack, 1, Len(stack) - 1)
WithTop(f) == [stack EXCEPT ![Len(stack)] = f]
Goto(pc) == WithTop([Top EXCEPT !.pc = pc])
\* the top frame calls fn and will resume at cont
Call(cont, fn) == Append(Goto(cont), Frame(fn, "entry"))

Return(val) ==
    /\ stack' = Popped
    /\ ret' = [fn |-> Top.fn, val |-> val, at |-> Top.pc]
    /\ startRet' = IF Top.fn = "start" THEN val ELSE startRet

\* start() has been called and has not returned
InStart == \E k \in 1..Len(stack) : stack[k].fn = "start"

Remove(seq, x) ==
    LET idx == CHOOSE k \in 1..Len(seq) : seq[k] = x
    IN  SubSeq(seq, 1, idx - 1) \o SubSeq(seq, idx + 1, Len(seq))

InSeq(seq, x) == \E k \in 1..Len(seq) : seq[k] = x

SvcInit ==
    /\ service \in Services
    /\ env \in [get_required_config_vars(service) -> {"absent", "empty", "set"}]
    /\ config = load_environment_variables(service, env)
    /\ running = FALSE
    /\ shutdown_requested = FALSE
    /\ processes = <<>>
    /\ procState = [p \in ProcIds |-> "none"]
    /\ sent = [p \in ProcIds |-> <<>>]
    /\ hc_running = FALSE
    /\ stack = <<>>
    /\ ret = [fn |-> "none", val |-> "None", at |-> "none"]
    /\ startRet = "none"
    /\ log = <<>>
    /\ nSignals = 0
    /\ nStopCalls = 0
    /\ everRunning = FALSE
    /\ removed = [p \in ProcIds |-> 0]
    /\ earlySignal = FALSE

\* ------------------------------------------------- the embedding program
\* ServiceRunner.run_service / __main__.main: service.start(), once.
CallStart ==
    /\ stack = <<>>
    /\ startRet = "none"
    /\ stack' = <<Frame("start", "entry")>>
    /\ UNCHANGED <<service, env, config, running, shutdown_requested, processes,
                   procState, sent, hc_running, ret, startRet, log, nSignals,
                   nStopCalls, everRunning, removed, earlySignal>>
    /\ UNCHANGED notSvc

\* a direct call of the public stop() by the embedding program
CallStop ==
    /\ stack = <<>>
    /\ nStopCalls < MaxStopCalls
    /\ nStopCalls' = nStopCalls + 1
    /\ stack' = <<Frame("stop", "entry")>>
    /\ UNCHANGED <<service, env, config, running, shutdown_requested, processes,
                   procState, sent, hc_running, ret, startRet, log, nSignals,
                   everRunning, removed, earlySignal>>
    /\ UNCHANGED notSvc

\* ------------------------------------------------------ BaseService.start
\* line 248: validate_configuration(); on failure return False
StartValidate ==
    /\ Active("start", "entry")
    /\ IF validate_configuration
         THEN /\ stack' = Goto("configure")
              /\ UNCHANGED <<ret, startRet>>
         ELSE Return("False")
    /\ UNCHANGED <<service, env, config, running, shutdown_requested, processes,
                   procState, sent, hc_running, log, nSignals, nStopCalls,
                   everRunning, removed, earlySignal>>
    /\ UNCHANGED notSvc

\* line 254: configure() returns True, returns False or raises (line 275)
StartConfigure ==
    /\ Active("start", "configure")
    /\ log' = Append(log, "configure")
    /\ \E outcome \in {"true", "false", "raise"} :
         IF outcome = "true"
           THEN /\ stack' = Goto("health_start")
                /\ UNCHANGED <<ret, startRet>>
           ELSE Return("False")
    /\ UNCHANGED <<service, env, config, running, shutdown_requested, processes,
                   procState, sent, hc_running, nSignals, nStopCalls, everRunning,
                   removed, earlySignal>>
    /\ UNCHANGED notSvc

\* mutant: start() goes on to start_service() when the port cannot be bound
StartHealth_IgnoresBindFailure ==
    /\ Active("start", "health_start")
    /\ \E bound \in BOOLEAN :
         IF bound
           THEN /\ hc_running' = TRUE
                /\ log' = Append(log, "health_start")
           ELSE UNCHANGED <<hc_running, log>>
    /\ stack' = Goto("start_service")
    /\ UNCHANGED <<service, env, config, running, shutdown_requested, processes,
                   procState, sent, ret, startRet, nSignals, nStopCalls, everRunning,
                   removed, earlySignal>>
    /\ UNCHANGED notSvc

\* line 259: health_checker.start(); HealthChecker.start binds the listener,
\* or raises when the port cannot be bound (then start() returns False)
StartHealth ==
    /\ Active("start", "health_start")
    /\ \E bound \in BOOLEAN :
         IF bound
           THEN /\ hc_running' = TRUE
                /\ log' = Append(log, "health_start")
                /\ stack' = Goto("start_service")
                /\ UNCHANGED <<ret, startRet>>
           ELSE /\ Return("False")
                /\ UNCHANGED <<hc_running, log>>
    /\ UNCHANGED <<service, env, config, running, shutdown_requested, processes,
                   procState, sent, nSignals, nStopCalls, everRunning,
                   removed, earlySignal>>
    /\ UNCHANGED notSvc

\* line 263: start_service() spawns n daemons through run_subprocess (each is
\* appended to self.processes) and returns True, returns False or raises
StartService ==
    /\ Active("start", "start_service")
    /\ log' = Append(log, "start_service")
    /\ \E n \in 0..MaxProcs, outcome \in {"true", "false", "raise"} :
         /\ processes' = processes \o [k \in 1..n |-> k]
         /\ procState' = [p \in ProcIds |-> IF p <= n THEN "alive" ELSE procState[p]]
         /\ IF outcome = "true"
              THEN /\ stack' = Goto("set_running")
                   /\ UNCHANGED <<ret, startRet>>
              ELSE Return("False")
    /\ UNCHANGED <<service, env, config, running, shutdown_requested, sent,
                   hc_running, nSignals, nStopCalls, everRunning, removed, earlySignal>>
    /\ UNCHANGED notSvc

\* line 267: self.running = True
StartSetRunning ==
    /\ Active("start", "set_running")
    /\ running' = TRUE
    /\ everRunning' = TRUE
    /\ stack' = Goto("loop_test")
    /\ UNCHANGED <<service, env, config, shutdown_requested, processes, procState,
                   sent, hc_running, ret, startRet, log, nSignals, nStopCalls,
                   removed, earlySignal>>
    /\ UNCHANGED notSvc

\* ----------------------------------------------- BaseService.service_loop
\* line 284: while self.running and not self.shutdown_requested
LoopTest ==
    /\ Active("start", "loop_test")
    /\ stack' = IF running /\ ~shutdown_requested
                  THEN WithTop([Top EXCEPT !.pc = "loop_health", !.hc = "none",
                                            !.alive = {}])
                  ELSE Goto("finally")
    /\ UNCHANGED <<service, env, config, running, shutdown_requested, processes,
                   procState, sent, hc_running, ret, startRet, log, nSignals,
                   nStopCalls, everRunning, removed, earlySignal>>
    /\ UNCHANGED notSvc

\* mutant: a failed health check ends the loop
LoopHealth_FalseStops ==
    /\ Active("start", "loop_health")
    /\ \E outcome \in {"true", "false", "raise"} :
         stack' = IF outcome = "raise"
                    THEN WithTop([Top EXCEPT !.pc = "finally", !.exc = TRUE,
                                              !.hc = "raise"])
                    ELSE IF outcome = "false"
                    THEN WithTop([Top EXCEPT !.pc = "finally", !.hc = "false"])
                    ELSE WithTop([Top EXCEPT !.pc = "loop_scan", !.i = 1,
                                              !.snap = processes, !.hc = outcome])
    /\ UNCHANGED <<service, env, config, running, shutdown_requested, processes,
                   procState, sent, hc_running, ret, startRet, log, nSignals,
                   nStopCalls, everRunning, removed, earlySignal>>
    /\ UNCHANGED notSvc

\* lines 286-290: health_check() returns (True, or False with a warning) and
\* the scan starts over a copy of self.processes; or it raises, which leaves
\* the loop through the finally clause
LoopHealth ==
    /\ Active("start", "loop_health")
    /\ \E outcome \in {"true", "false", "raise"} :
         stack' = IF outcome = "raise"
                    THEN WithTop([Top EXCEPT !.pc = "finally", !.exc = TRUE,
                                              !.hc = "raise"])
                    ELSE WithTop([Top EXCEPT !.pc = "loop_scan", !.i = 1,
                                              !.snap = processes, !.hc = outcome])
    /\ UNCHANGED <<service, env, config, running, shutdown_requested, processes,
                   procState, sent, hc_running, ret, startRet, log, nSignals,
                   nStopCalls, everRunning, removed, earlySignal>>
    /\ UNCHANGED notSvc

\* mutant: an entry found exited is left in self.processes
LoopScan_KeepsExited ==
    /\ Active("start", "loop_scan")
    /\ stack' = IF Top.i > Len(Top.snap) THEN Goto("loop_test")
                ELSE IF procState[Top.snap[Top.i]] = "exited"
                THEN WithTop([Top EXCEPT !.i = Top.i + 1])
                ELSE WithTop([Top EXCEPT !.i = Top.i + 1,
                                          !.alive = Top.alive \cup {Top.snap[Top.i]}])
    /\ UNCHANGED <<service, env, config, running, shutdown_requested, processes,
                   procState, sent, hc_running, ret, startRet, log, nSignals,
                   nStopCalls, everRunning, removed, earlySignal>>
    /\ UNCHANGED notSvc

\* lines 290-291, 296: the next entry of the copy is polled; after the last,
\* sleep(1) and back to the loop test
LoopScan ==
    /\ Active("start", "loop_scan")
    /\ stack' = IF Top.i > Len(Top.snap) THEN Goto("loop_test")
                ELSE IF procState[Top.snap[Top.i]] = "exited" THEN Goto("loop_remove")
                ELSE WithTop([Top EXCEPT !.i = Top.i + 1,
                                          !.alive = Top.alive \cup {Top.snap[Top.i]}])
    /\ UNCHANGED <<service, env, config, running, shutdown_requested, processes,
                   procState, sent, hc_running, ret, startRet, log, nSignals,
                   nStopCalls, everRunning, removed, earlySignal>>
    /\ UNCHANGED notSvc

\* mutant: finding an exited entry ends the loop, which stops the service
LoopRemove_StopsService ==
    /\ Active("start", "loop_remove")
    /\ stack' = Goto("finally")
    /\ UNCHANGED <<service, env, config, running, shutdown_requested, processes,
                   procState, sent, hc_running, ret, startRet, log, nSignals,
                   nStopCalls, everRunning, removed, earlySignal>>
    /\ UNCHANGED notSvc

\* line 293: self.processes.remove(process); list.remove raises ValueError
\* when the entry is no longer in the list
LoopRemove ==
    /\ Active("start", "loop_remove")
    /\ IF InSeq(processes, Top.snap[Top.i])
         THEN /\ processes' = Remove(processes, Top.snap[Top.i])
              /\ removed' = [removed EXCEPT ![Top.snap[Top.i]] = @ + 1]
              /\ stack' = WithTop([Top EXCEPT !.pc = "loop_scan", !.i = Top.i + 1])
         ELSE /\ stack' = WithTop([Top EXCEPT !.pc = "finally", !.exc = TRUE])
              /\ UNCHANGED <<processes, removed>>
    /\ UNCHANGED <<service, env, config, running, shutdown_requested, procState,
                   sent, hc_running, ret, startRet, log, nSignals, nStopCalls,
                   everRunning, earlySignal>>
    /\ UNCHANGED notSvc

\* line 303: finally: self.stop()
LoopFinally ==
    /\ Active("start", "finally")
    /\ stack' = Call("after_loop", "stop")
    /\ UNCHANGED <<service, env, config, running, shutdown_requested, processes,
                   procState, sent, hc_running, ret, startRet, log, nSignals,
                   nStopCalls, everRunning, removed, earlySignal>>
    /\ UNCHANGED notSvc

\* line 273: return True; or line 277 when the loop was left by an exception
StartReturn ==
    /\ Active("start", "after_loop")
    /\ Return(IF Top.exc THEN "False" ELSE "True")
    /\ UNCHANGED <<service, env, config, running, shutdown_requested, processes,
                   procState, sent, hc_running, log, nSignals, nStopCalls,
                   everRunning, removed, earlySignal>>
    /\ UNCHANGED notSvc

\* ------------------------------------------------------- BaseService.stop
\* mutant: the early return is missing
StopCheck_NoGuard ==
    /\ Active("stop", "entry")
    /\ stack' = Goto("mark")
    /\ UNCHANGED <<service, env, config, running, shutdown_requested, processes,
                   procState, sent, hc_running, ret, startRet, log, nSignals,
                   nStopCalls, everRunning, removed, earlySignal>>
    /\ UNCHANGED notSvc

\* lines 311-312: if not self.running: return True
StopCheck ==
    /\ Active("stop", "entry")
    /\ IF running
         THEN /\ stack' = Goto("mark")
              /\ UNCHANGED <<ret, startRet>>
         ELSE Return("True")
    /\ UNCHANGED <<service, env, config, running, shutdown_requested, processes,
                   procState, sent, hc_running, log, nSignals, nStopCalls,
                   everRunning, removed, earlySignal>>
    /\ UNCHANGED notSvc

\* mutant: the health checker is not stopped before stop_service()
StopMark_SkipsHealthStop ==
    /\ Active("stop", "mark")
    /\ running' = FALSE
    /\ stack' = Goto("stop_service")
    /\ UNCHANGED <<service, env, config, shutdown_requested, processes, procState,
                   sent, hc_running, ret, startRet, log, nSignals, nStopCalls,
                   everRunning, removed, earlySignal>>
    /\ UNCHANGED notSvc

\* lines 314-315: logger.info(...), then self.running = False
StopMark ==
    /\ Active("stop", "mark")
    /\ running' = FALSE
    /\ stack' = Goto("health_stop")
    /\ UNCHANGED <<service, env, config, shutdown_requested, processes, procState,
                   sent, hc_running, ret, startRet, log, nSignals, nStopCalls,
                   everRunning, removed, earlySignal>>
    /\ UNCHANGED notSvc

\* line 319: self.health_checker.stop(); HealthChecker.stop returns at once
\* when the listener is not running, else shuts it down and marks it stopped
StopHealth ==
    /\ Active("stop", "health_stop")
    /\ IF hc_running
         THEN /\ hc_running' = FALSE
              /\ log' = Append(log, "health_stop")
         ELSE UNCHANGED <<hc_running, log>>
    /\ stack' = Goto("stop_service")
    /\ UNCHANGED <<service, env, config, running, shutdown_requested, processes,
                   procState, sent, ret, startRet, nSignals, nStopCalls,
                   everRunning, removed, earlySignal>>
    /\ UNCHANGED notSvc

\* lines 322-323, 343-345: stop_service() stops some of the daemons it owns and
\* returns True, returns False (a warning, teardown goes on) or raises (the
\* except clause logs the error and stop() returns False)
StopService ==
    /\ Active("stop", "stop_service")
    /\ log' = Append(log, "stop_service")
    /\ \E outcome \in {"true", "false", "raise"},
          K \in SUBSET {p \in ProcIds : procState[p] = "alive"} :
         /\ procState' = [p \in ProcIds |-> IF p \in K THEN "exited" ELSE procState[p]]
         /\ IF outcome = "raise"
              THEN Return("False")
              ELSE /\ stack' = WithTop([Top EXCEPT !.pc = "terminate", !.i = 1])
                   /\ UNCHANGED <<ret, startRet>>
    /\ UNCHANGED <<service, env, config, running, shutdown_requested, processes,
                   sent, hc_running, nSignals, nStopCalls, everRunning,
                   removed, earlySignal>>
    /\ UNCHANGED notSvc

\* mutant: live processes are left alone
StopTerminate_SkipsLive ==
    /\ Active("stop", "terminate")
    /\ stack' = IF Top.i > Len(processes) THEN Goto("clear")
                ELSE WithTop([Top EXCEPT !.i = Top.i + 1])
    /\ UNCHANGED <<service, env, config, running, shutdown_requested, processes,
                   procState, sent, hc_running, ret, startRet, log, nSignals,
                   nStopCalls, everRunning, removed, earlySignal>>
    /\ UNCHANGED notSvc

\* lines 326-329: for process in self.processes: a live one gets terminate()
StopTerminate ==
    /\ Active("stop", "terminate")
    /\ IF Top.i > Len(processes)
         THEN /\ stack' = Goto("clear")
              /\ UNCHANGED <<sent, log>>
         ELSE LET p == processes[Top.i] IN
              IF procState[p] = "alive"
                THEN /\ sent' = [sent EXCEPT ![p] = Append(@, "TERM")]
                     /\ log' = Append(log, "terminate")
                     /\ stack' = WithTop([Top EXCEPT !.pc = "wait", !.cur = p])
                ELSE /\ stack' = WithTop([Top EXCEPT !.i = Top.i + 1])
                     /\ UNCHANGED <<sent, log>>
    /\ UNCHANGED <<service, env, config, running, shutdown_requested, processes,
                   procState, hc_running, ret, startRet, nSignals, nStopCalls,
                   everRunning, removed, earlySignal>>
    /\ UNCHANGED notSvc

\* lines 332-337: process.wait(timeout=5): the process exits within the wait,
\* or the wait times out and the process is killed and reaped
StopWait ==
    /\ Active("stop", "wait")
    /\ \E timeout \in BOOLEAN :
         /\ timeout => procState[Top.cur] = "alive"
         /\ sent' = IF timeout THEN [sent EXCEPT ![Top.cur] = Append(@, "KILL")]
                    ELSE sent
    /\ procState' = [procState EXCEPT ![Top.cur] = "exited"]
    /\ stack' = WithTop([Top EXCEPT !.pc = "terminate", !.i = Top.i + 1])
    /\ UNCHANGED <<service, env, config, running, shutdown_requested, processes,
                   hc_running, ret, startRet, log, nSignals, nStopCalls,
                   everRunning, removed, earlySignal>>
    /\ UNCHANGED notSvc

\* lines 339-341: self.processes.clear(); return True
StopClear ==
    /\ Active("stop", "clear")
    /\ processes' = <<>>
    /\ Return("True")
    /\ UNCHANGED <<service, env, config, running, shutdown_requested, procState,
                   sent, hc_running, log, nSignals, nStopCalls, everRunning,
                   removed, earlySignal>>
    /\ UNCHANGED notSvc

\* ------------------------------------- BaseService.setup_signal_handlers
\* lines 47-49: SIGTERM or SIGINT arrives while the service object is in use:
\* the interpreter runs signal_handler on the main thread, on top of whatever
\* the main thread is executing; it logs and sets self.shutdown_requested
SignalDeliver ==
    /\ nSignals < MaxSignals
    /\ startRet = "none"
    /\ nSignals' = nSignals + 1
    /\ shutdown_requested' = TRUE
    /\ stack' = Append(stack, Frame("handler", "call_stop"))
    /\ earlySignal' = (earlySignal \/ (InStart /\ ~everRunning))
    /\ UNCHANGED <<service, env, config, running, processes, procState, sent,
                   hc_running, ret, startRet, log, nStopCalls, everRunning, removed>>
    /\ UNCHANGED notSvc

\* line 50: self.stop()
HandlerStop ==
    /\ Active("handler", "call_stop")
    /\ stack' = Call("done", "stop")
    /\ UNCHANGED <<service, env, config, running, shutdown_requested, processes,
                   procState, sent, hc_running, ret, startRet, log, nSignals,
                   nStopCalls, everRunning, removed, earlySignal>>
    /\ UNCHANGED notSvc

\* the handler returns and the interrupted frame resumes
HandlerReturn ==
    /\ Active("handler", "done")
    /\ Return("None")
    /\ UNCHANGED <<service, env, config, running, shutdown_requested, processes,
                   procState, sent, hc_running, log, nSignals, nStopCalls,
                   everRunning, removed, earlySignal>>
    /\ UNCHANGED notSvc

\* --------------------------------------------------------- the daemons
\* a tracked daemon exits on its own
ProcExit ==
    /\ \E p \in ProcIds :
         /\ procState[p] = "alive"
         /\ procState' = [procState EXCEPT ![p] = "exited"]
    /\ UNCHANGED <<service, env, config, running, shutdown_requested, processes,
                   sent, hc_running, stack, ret, startRet, log, nSignals,
                   nStopCalls, everRunning, removed, earlySignal>>
    /\ UNCHANGED notSvc

\* ------------------------------------------------------------ HealthChecker
\* the check names in the order the dict iterates them: register_default_checks
\* inserts the two defaults in __init__, a custom check comes after them
CheckNames == <<"log_directory", "config_directory", "custom">>

\* HealthChecker.register_default_checks
register_default_checks ==
    [log_directory |-> "check_log_directory",
     config_directory |-> "check_config_directory"]

\* ServiceHealthChecker.__init__: the default checks and service_health, whose
\* probe check_service_health answers what the service's health_check() answers
ServiceHealthChecker_checks ==
    [log_directory |-> "check_log_directory",
     config_directory |-> "check_config_directory",
     service_health |-> "check_service_health"]

CustomProbes == {"probe_a", "probe_b"}
Probes == {"check_log_directory", "check_config_directory", "check_service_health"}
              \cup CustomProbes

\* check_log_directory, check_config_directory and check_service_health catch
\* every exception and answer False; a probe registered by a service may raise
Outcomes(p) ==
    IF p \in CustomProbes THEN {"pass", "fail", "raise"} ELSE {"pass", "fail"}

\* self.health_checks.items()
Items(hc) == SelectSeq(CheckNames, LAMBDA n : n \in DOMAIN hc)

NoCalls == [k \in 1..Len(CheckNames) |-> 0]
Index(name) == CHOOSE k \in 1..Len(CheckNames) : CheckNames[k] = name
EmptyMap == [n \in {} |-> 0]

\* mutant: the loop ends at the first failing check
RECURSIVE is_healthy_loop_ShortCircuit(_, _, _, _)
is_healthy_loop_ShortCircuit(items, hc, res, acc) ==
    IF items = <<>> THEN acc
    ELSE LET name == Head(items)
             r == res[hc[name]]
             counted == [acc EXCEPT !.calls[Index(name)] = @ + 1]
         IN  IF r = "pass"
               THEN is_healthy_loop_ShortCircuit(Tail(items), hc, res, counted)
               ELSE [counted EXCEPT !.failed_checks = Append(@, name)]

\* HealthChecker.is_healthy, lines 188-196: every check function is called; one
\* that answers False or raises is appended to failed_checks
RECURSIVE is_healthy_loop(_, _, _, _)
is_healthy_loop(items, hc, res, acc) ==
    IF items = <<>> THEN acc
    ELSE LET name == Head(items)
             r == res[hc[name]]
             counted == [acc EXCEPT !.calls[Index(name)] = @ + 1]
         IN  is_healthy_loop(Tail(items), hc, res,
                 IF r = "pass" THEN counted
                 ELSE [counted EXCEPT !.failed_checks = Append(@, name)])

\* HealthChecker.is_healthy, lines 199-205: the verdict that is stored in
\* self.health_status and returned, with the calls made
is_healthy(hc, res) ==
    LET out == is_healthy_loop(Items(hc), hc, res,
                               [failed_checks |-> <<>>, calls |-> NoCalls])
    IN  [val |-> Len(out.failed_checks) = 0, calls |-> out.calls]

\* HealthChecker.get_detailed_status, lines 237-249: one entry per check
RECURSIVE status_loop(_, _, _, _)
status_loop(items, hc, res, acc) ==
    IF items = <<>> THEN acc
    ELSE LET name == Head(items)
             r == res[hc[name]]
             entry == IF r = "raise" THEN [status |-> "error", healthy |-> FALSE]
                      ELSE [status |-> IF r = "pass" THEN "pass" ELSE "fail",
                            healthy |-> r = "pass"]
         IN  status_loop(Tail(items), hc, res,
                 [checks |-> (name :> entry) @@ acc.checks,
                  calls |-> [acc.calls EXCEPT ![Index(name)] = @ + 1]])

\* HealthChecker.get_detailed_status, lines 227-234: the document's healthy,
\* ready and last_check fields are the stored attributes
get_detailed_status(hc, res) ==
    LET out == status_loop(Items(hc), hc, res,
                           [checks |-> EmptyMap, calls |-> NoCalls])
    IN  [healthy |-> health_status, ready |-> ready_status,
         last_check |-> last_health_check, checks |-> out.checks,
         calls |-> out.calls]

NoResponse ==
    [op |-> "none", code |-> 0, status |-> "", val |-> FALSE, healthy |-> FALSE,
     ready |-> FALSE, last_check |-> 0, checks |-> EmptyMap, calls |-> NoCalls]

\* mutant: the liveness route answers 200 whatever the verdict
handle_health_check_Always200(is_ok) ==
    [code |-> 200, status |-> IF is_ok THEN "healthy" ELSE "unhealthy"]

\* HealthCheckHandler.handle_health_check, lines 37-48
handle_health_check(is_ok) ==
    IF is_ok THEN [code |-> 200, status |-> "healthy"]
    ELSE [code |-> 503, status |-> "unhealthy"]

\* HealthCheckHandler.handle_readiness_check, lines 62-73
handle_readiness_check(is_ok) ==
    IF is_ok THEN [code |-> 200, status |-> "ready"]
    ELSE [code |-> 503, status |-> "not_ready"]

\* BaseService.__init__ constructs HealthChecker(service_name, self.config),
\* whose __init__ registers the default checks
HealthInit ==
    /\ health_checks = register_default_checks
    /\ probeResult \in {f \in [Probes -> {"pass", "fail", "raise"}] :
                          \A q \in Probes : f[q] \in Outcomes(q)}
    /\ health_status = FALSE
    /\ ready_status = FALSE
    /\ last_health_check = 0
    /\ clock = 1
    /\ response = NoResponse

\* mutant: registering a check starts the registry afresh
RegisterCheck_ClearsOthers ==
    /\ \E name \in {"log_directory", "custom"}, probe \in CustomProbes :
         health_checks' = (name :> probe)
    /\ response' = NoResponse
    /\ UNCHANGED <<probeResult, health_status, ready_status, last_health_check,
                   clock>>
    /\ UNCHANGED notHealth

\* HealthChecker.register_check: self.health_checks[name] = check_function
RegisterCheck ==
    /\ \E name \in {"log_directory", "custom"}, probe \in CustomProbes :
         health_checks' = (name :> probe) @@ health_checks
    /\ response' = NoResponse
    /\ UNCHANGED <<probeResult, health_status, ready_status, last_health_check,
                   clock>>
    /\ UNCHANGED notHealth

\* the world changes: a probe that passed now fails or raises, or recovers
ProbeChange ==
    /\ \E q \in Probes :
         \E o \in Outcomes(q) :
         /\ o # probeResult[q]
         /\ probeResult' = [probeResult EXCEPT ![q] = o]
    /\ response' = NoResponse
    /\ UNCHANGED <<health_checks, health_status, ready_status, last_health_check,
                   clock>>
    /\ UNCHANGED notHealth

\* time passes
Tick ==
    /\ clock < MaxClock
    /\ clock' = clock + 1
    /\ response' = NoResponse
    /\ UNCHANGED <<health_checks, probeResult, health_status, ready_status,
                   last_health_check>>
    /\ UNCHANGED notHealth

\* HealthChecker.is_healthy called directly
IsHealthy ==
    /\ LET r == is_healthy(health_checks, probeResult) IN
         /\ health_status' = r.val
         /\ last_health_check' = clock
         /\ response' = [NoResponse EXCEPT !.op = "is_healthy", !.val = r.val,
                                           !.calls = r.calls]
    /\ UNCHANGED <<health_checks, probeResult, ready_status, clock>>
    /\ UNCHANGED notHealth

\* HealthChecker.is_ready, lines 217-219: return self.is_healthy()
IsReady ==
    /\ LET r == is_healthy(health_checks, probeResult) IN
         /\ health_status' = r.val
         /\ last_health_check' = clock
         /\ response' = [NoResponse EXCEPT !.op = "is_ready", !.val = r.val,
                                           !.calls = r.calls]
    /\ UNCHANGED <<health_checks, probeResult, ready_status, clock>>
    /\ UNCHANGED notHealth

\* HealthChecker.get_detailed_status called directly
GetDetailedStatus ==
    /\ LET d == get_detailed_status(health_checks, probeResult) IN
         response' = [NoResponse EXCEPT !.op = "get_detailed_status",
                         !.healthy = d.healthy, !.ready = d.ready,
                         !.last_check = d.last_check, !.checks = d.checks,
                         !.calls = d.calls]
    /\ UNCHANGED <<health_checks, probeResult, health_status, ready_status,
                   last_health_check, clock>>
    /\ UNCHANGED notHealth

\* do_GET, path /health: handle_health_check
GetHealth ==
    /\ LET r == is_healthy(health_checks, probeResult)
           a == handle_health_check(r.val) IN
         /\ health_status' = r.val
         /\ last_health_check' = clock
         /\ response' = [NoResponse EXCEPT !.op = "GET /health", !.code = a.code,
                            !.status = a.status, !.val = r.val, !.calls = r.calls]
    /\ UNCHANGED <<health_checks, probeResult, ready_status, clock>>
    /\ UNCHANGED notHealth

\* do_GET, path /ready: handle_readiness_check
GetReady ==
    /\ LET r == is_healthy(health_checks, probeResult)
           a == handle_readiness_check(r.val) IN
         /\ health_status' = r.val
         /\ last_health_check' = clock
         /\ response' = [NoResponse EXCEPT !.op = "GET /ready", !.code = a.code,
                            !.status = a.status, !.val = r.val, !.calls = r.calls]
    /\ UNCHANGED <<health_checks, probeResult, ready_status, clock>>
    /\ UNCHANGED notHealth

\* do_GET, path /status: handle_status_check
GetStatus ==
    /\ LET d == get_detailed_status(health_checks, probeResult) IN
         response' = [NoResponse EXCEPT !.op = "GET /status", !.code = 200,
                         !.healthy = d.healthy, !.ready = d.ready,
                         !.last_check = d.last_check, !.checks = d.checks,
                         !.calls = d.calls]
    /\ UNCHANGED <<health_checks, probeResult, health_status, ready_status,
                   last_health_check, clock>>
    /\ UNCHANGED notHealth

\* do_GET, any other path: send_error(404)
GetOther ==
    /\ response' = [NoResponse EXCEPT !.op = "GET other", !.code = 404]
    /\ UNCHANGED <<health_checks, probeResult, health_status, ready_status,
                   last_health_check, clock>>
    /\ UNCHANGED notHealth

NextHealth ==
    \/ RegisterCheck \/ ProbeChange \/ Tick
    \/ IsHealthy \/ IsReady \/ GetDetailedStatus
    \/ GetHealth \/ GetReady \/ GetStatus \/ GetOther

\* --------------------------------------------- terminate_process_gracefully
\* is_process_running: os.kill(pid, 0) succeeds for a process that exists
is_process_running(p) == p = "alive"

TermInit ==
    /\ t_timeout \in 0..MaxTimeout
    /\ t_pc = "check"
    /\ t_k = 0
    /\ t_proc \in {"alive", "gone"}
    /\ t_start = t_proc
    /\ t_ignores \in BOOLEAN
    /\ t_sent = <<>>
    /\ t_polls = 0
    /\ t_sleeps = 0
    /\ t_last = "none"
    /\ t_ret = "none"

\* lines 314-315: if not is_process_running(pid): return True
TermCheck ==
    /\ t_pc = "check"
    /\ t_last' = t_proc
    /\ IF is_process_running(t_proc)
         THEN t_pc' = "sigterm" /\ UNCHANGED t_ret
         ELSE t_pc' = "done" /\ t_ret' = "True"
    /\ UNCHANGED <<t_timeout, t_k, t_proc, t_start, t_ignores, t_sent, t_polls, t_sleeps>>
    /\ UNCHANGED notTerm

\* line 318: os.kill(pid, 15); for a process that is gone by now it raises
\* ProcessLookupError, which lines 338-340 turn into return False
TermSigterm ==
    /\ t_pc = "sigterm"
    /\ IF t_proc = "alive"
         THEN /\ t_sent' = Append(t_sent, "TERM")
              /\ t_pc' = "loop"
              /\ UNCHANGED t_ret
         ELSE /\ t_pc' = "done"
              /\ t_ret' = "False"
              /\ UNCHANGED t_sent
    /\ UNCHANGED <<t_timeout, t_k, t_proc, t_start, t_ignores, t_polls, t_sleeps, t_last>>
    /\ UNCHANGED notTerm

\* mutant: the wait loop runs one time too many (range(timeout + 1))
TermLoop_OneMore ==
    /\ t_pc = "loop"
    /\ IF t_k >= t_timeout + 1
         THEN /\ t_pc' = "final"
              /\ UNCHANGED <<t_polls, t_last, t_ret>>
         ELSE /\ t_polls' = t_polls + 1
              /\ t_last' = t_proc
              /\ IF is_process_running(t_proc)
                   THEN t_pc' = "sleep" /\ UNCHANGED t_ret
                   ELSE t_pc' = "done" /\ t_ret' = "True"
    /\ UNCHANGED <<t_timeout, t_k, t_proc, t_start, t_ignores, t_sent, t_sleeps>>
    /\ UNCHANGED notTerm

\* lines 323-326: for _ in range(timeout): if not is_process_running(pid):
\* return True
TermLoop ==
    /\ t_pc = "loop"
    /\ IF t_k >= t_timeout
         THEN /\ t_pc' = "final"
              /\ UNCHANGED <<t_polls, t_last, t_ret>>
         ELSE /\ t_polls' = t_polls + 1
              /\ t_last' = t_proc
              /\ IF is_process_running(t_proc)
                   THEN t_pc' = "sleep" /\ UNCHANGED t_ret
                   ELSE t_pc' = "done" /\ t_ret' = "True"
    /\ UNCHANGED <<t_timeout, t_k, t_proc, t_start, t_ignores, t_sent, t_sleeps>>
    /\ UNCHANGED notTerm

\* line 327: time.sleep(1)
TermSleep ==
    /\ t_pc = "sleep"
    /\ t_sleeps' = t_sleeps + 1
    /\ t_k' = t_k + 1
    /\ t_pc' = "loop"
    /\ UNCHANGED <<t_timeout, t_proc, t_start, t_ignores, t_sent, t_polls, t_last, t_ret>>
    /\ UNCHANGED notTerm

\* lines 330, 336: if is_process_running(pid): ... else return True
TermFinal ==
    /\ t_pc = "final"
    /\ t_last' = t_proc
    /\ IF is_process_running(t_proc)
         THEN t_pc' = "sigkill" /\ UNCHANGED t_ret
         ELSE t_pc' = "done" /\ t_ret' = "True"
    /\ UNCHANGED <<t_timeout, t_k, t_proc, t_start, t_ignores, t_sent, t_polls, t_sleeps>>
    /\ UNCHANGED notTerm

\* line 331: os.kill(pid, 9): the kernel ends the process; for a process that
\* is gone by now it raises, and lines 338-340 return False
TermSigkill ==
    /\ t_pc = "sigkill"
    /\ IF t_proc = "alive"
         THEN /\ t_sent' = Append(t_sent, "KILL")
              /\ t_proc' = "gone"
              /\ t_pc' = "kill_sleep"
              /\ UNCHANGED t_ret
         ELSE /\ t_pc' = "done"
              /\ t_ret' = "False"
              /\ UNCHANGED <<t_sent, t_proc>>
    /\ UNCHANGED <<t_timeout, t_k, t_start, t_ignores, t_polls, t_sleeps, t_last>>
    /\ UNCHANGED notTerm

\* line 333: time.sleep(1)
TermKillSleep ==
    /\ t_pc = "kill_sleep"
    /\ t_sleeps' = t_sleeps + 1
    /\ t_pc' = "confirm"
    /\ UNCHANGED <<t_timeout, t_k, t_proc, t_start, t_ignores, t_sent, t_polls, t_last,
                   t_ret>>
    /\ UNCHANGED notTerm

\* line 334: return not is_process_running(pid)
TermConfirm ==
    /\ t_pc = "confirm"
    /\ t_last' = t_proc
    /\ t_ret' = IF is_process_running(t_proc) THEN "False" ELSE "True"
    /\ t_pc' = "done"
    /\ UNCHANGED <<t_timeout, t_k, t_proc, t_start, t_ignores, t_sent, t_polls, t_sleeps>>
    /\ UNCHANGED notTerm

\* the process exits: after the SIGTERM it honours, or for a reason of its own
TargetExits ==
    /\ t_pc # "done"
    /\ t_proc = "alive"
    /\ ~t_ignores
    /\ t_proc' = "gone"
    /\ UNCHANGED <<t_timeout, t_pc, t_k, t_start, t_ignores, t_sent, t_polls, t_sleeps,
                   t_last, t_ret>>
    /\ UNCHANGED notTerm

NextTerm ==
    \/ TermCheck \/ TermSigterm \/ TermLoop \/ TermSleep \/ TermFinal
    \/ TermSigkill \/ TermKillSleep \/ TermConfirm \/ TargetExits


\* ------------------------------------------- run_command_with_retry (utils)
\* What one subprocess.run(command, check=True, ...) can do: exit with status
\* 0, exit with a non-zero status (CalledProcessError), or fail to execute
\* the command at all (FileNotFoundError, PermissionError: an OSError).
RunOutcomes == {"ok", "exit", "oserror"}

RetryInit ==
    /\ r_attempt = 0
    /\ r_pc = "for"
    /\ r_trace = <<>>
    /\ r_ret = "none"

\* for attempt in range(retries + 1): ... ; return False after the loop
RetryFor ==
    /\ r_pc = "for"
    /\ IF r_attempt <= r_retries
         THEN r_pc' = "run" /\ r_ret' = r_ret
         ELSE r_pc' = "done" /\ r_ret' = "False"
    /\ UNCHANGED <<r_outcomes, r_retries, r_delay, r_attempt, r_trace>>
    /\ UNCHANGED notRetry

\* try: subprocess.run(...); return True
\* except CalledProcessError -> the retry branch; except Exception -> return False
RetryRun ==
    /\ r_pc = "run"
    /\ r_trace' = Append(r_trace, "run")
    /\ LET o == r_outcomes[r_attempt + 1] IN
         CASE o = "ok" -> r_pc' = "done" /\ r_ret' = "True"
           [] o = "exit" -> r_pc' = "failed" /\ r_ret' = r_ret
           [] o = "oserror" -> r_pc' = "done" /\ r_ret' = "False"
    /\ UNCHANGED <<r_outcomes, r_retries, r_delay, r_attempt>>
    /\ UNCHANGED notRetry

RetryFailed_NoRetry ==
    /\ r_pc = "failed"
    /\ r_pc' = "done" /\ r_ret' = "False"
    /\ UNCHANGED <<r_outcomes, r_retries, r_delay, r_attempt, r_trace>>
    /\ UNCHANGED notRetry

\* the CalledProcessError handler: if attempt < retries: (sleep) else return False
RetryFailed ==
    /\ r_pc = "failed"
    /\ IF r_attempt < r_retries
         THEN IF r_delay > 0
                THEN r_pc' = "sleep" /\ r_attempt' = r_attempt /\ r_ret' = r_ret
                ELSE r_pc' = "for" /\ r_attempt' = r_attempt + 1 /\ r_ret' = r_ret
         ELSE r_pc' = "done" /\ r_attempt' = r_attempt /\ r_ret' = "False"
    /\ UNCHANGED <<r_outcomes, r_retries, r_delay, r_trace>>
    /\ UNCHANGED notRetry

\* time.sleep(delay), then the next iteration
RetrySleep ==
    /\ r_pc = "sleep"
    /\ r_trace' = Append(r_trace, "sleep")
    /\ r_attempt' = r_attempt + 1
    /\ r_pc' = "for"
    /\ UNCHANGED <<r_outcomes, r_retries, r_delay, r_ret>>
    /\ UNCHANGED notRetry

NextRetry == RetryFor \/ RetryRun \/ RetryFailed \/ RetrySleep


\* ------------------- run_subprocess (service) and capture_subprocess_logs
LineKinds == {"text", "blank"}

Record(level, tag, stream, idx) ==
    [level |-> level, tag |-> tag, stream |-> stream, idx |-> idx]

\* for line in text.strip().split('\n'): if line.strip(): log(line)
\* applied to lines from+1..to of a stream: the non-blank lines, in order
RECURSIVE LogNonBlank(_, _, _, _, _, _)
LogNonBlank(lines, from, to, level, tag, stream) ==
    IF from >= to THEN <<>>
    ELSE (IF lines[from + 1] = "blank" THEN <<>>
          ELSE <<Record(level, tag, stream, from + 1)>>)
         \o LogNonBlank(lines, from + 1, to, level, tag, stream)

RunInit ==
    /\ p_pc = "entry"
    /\ p_ret = "none"
    /\ p_wout = 0 /\ p_werr = 0
    /\ c_pc = "idle"
    /\ c_readable = {}
    /\ c_rout = 0 /\ c_rerr = 0
    /\ c_lout = 0 /\ c_lerr = 0
    /\ p_log = <<>>

RunBackground_TracksFailedSpawn ==
    /\ p_pc = "entry" /\ background
    /\ p_pc' = "append"
    /\ procState' = [procState EXCEPT ![1] = IF p_spawn = "ok" THEN "alive" ELSE "none"]
    /\ UNCHANGED <<processes, background, capture_output, p_spawn, p_rc, p_out, p_err,
                   p_ret, p_wout, p_werr, c_pc, c_readable, c_rout, c_rerr, c_lout,
                   c_lerr, p_log>>
    /\ UNCHANGED notRun

\* if background: process = subprocess.Popen(...); a failure to create the
\* process raises inside the try: except Exception -> return False
RunBackground ==
    /\ p_pc = "entry" /\ background
    /\ IF p_spawn = "ok"
         THEN /\ procState' = [procState EXCEPT ![1] = "alive"]
              /\ p_pc' = "append"
              /\ UNCHANGED <<p_ret, p_log>>
         ELSE /\ p_log' = Append(p_log, Record("error", "none", "none", 0))
              /\ p_pc' = "done"
              /\ p_ret' = "False"
              /\ UNCHANGED procState
    /\ UNCHANGED <<processes, background, capture_output, p_spawn, p_rc, p_out, p_err,
                   p_wout, p_werr, c_pc, c_readable, c_rout, c_rerr, c_lout, c_lerr>>
    /\ UNCHANGED notRun

\* self.processes.append(process)
RunAppend ==
    /\ p_pc = "append"
    /\ processes' = Append(processes, 1)
    /\ IF capture_output
         THEN p_pc' = "thread" /\ p_ret' = p_ret
         ELSE p_pc' = "done" /\ p_ret' = "process"
    /\ UNCHANGED <<procState, background, capture_output, p_spawn, p_rc, p_out, p_err,
                   p_wout, p_werr, c_pc, c_readable, c_rout, c_rerr, c_lout, c_lerr,
                   p_log>>
    /\ UNCHANGED notRun

\* if capture_output: threading.Thread(target=log_output, daemon=True).start()
\* return process
RunThread ==
    /\ p_pc = "thread"
    /\ c_pc' = "poll"
    /\ p_pc' = "done"
    /\ p_ret' = "process"
    /\ UNCHANGED <<processes, procState, background, capture_output, p_spawn, p_rc,
                   p_out, p_err, p_wout, p_werr, c_readable, c_rout, c_rerr, c_lout,
                   c_lerr, p_log>>
    /\ UNCHANGED notRun

\* else: subprocess.run(command, ...) runs the command to its end; with
\* capture_output its output is logged line by line, tagged [CMD]; a non-zero
\* return code is an error line and False; a failure to create the process
\* raises inside the try: except Exception -> return False
RunForeground ==
    /\ p_pc = "entry" /\ ~background
    /\ IF p_spawn = "ok"
         THEN /\ p_wout' = Len(p_out) /\ p_werr' = Len(p_err)
              /\ p_log' = p_log
                   \o (IF capture_output
                         THEN LogNonBlank(p_out, 0, Len(p_out), "info", "CMD", "stdout")
                              \o LogNonBlank(p_err, 0, Len(p_err), "warning", "CMD", "stderr")
                         ELSE <<>>)
                   \o (IF p_rc # 0 THEN <<Record("error", "none", "none", 0)>> ELSE <<>>)
              /\ p_ret' = IF p_rc # 0 THEN "False" ELSE "True"
         ELSE /\ p_log' = Append(p_log, Record("error", "none", "none", 0))
              /\ p_ret' = "False"
              /\ UNCHANGED <<p_wout, p_werr>>
    /\ p_pc' = "done"
    /\ UNCHANGED <<processes, procState, background, capture_output, p_spawn, p_rc,
                   p_out, p_err, c_pc, c_readable, c_rout, c_rerr, c_lout, c_lerr>>
    /\ UNCHANGED notRun

\* the background subprocess writes its next stdout line
ChildWriteOut ==
    /\ procState[1] = "alive" /\ p_pc # "entry"
    /\ p_wout < Len(p_out)
    /\ p_wout' = p_wout + 1
    /\ UNCHANGED <<processes, procState, background, capture_output, p_spawn, p_rc,
                   p_out, p_err, p_pc, p_ret, p_werr, c_pc, c_readable, c_rout, c_rerr,
                   c_lout, c_lerr, p_log>>
    /\ UNCHANGED notRun

\* the background subprocess writes its next stderr line
ChildWriteErr ==
    /\ procState[1] = "alive" /\ p_pc # "entry"
    /\ p_werr < Len(p_err)
    /\ p_werr' = p_werr + 1
    /\ UNCHANGED <<processes, procState, background, capture_output, p_spawn, p_rc,
                   p_out, p_err, p_pc, p_ret, p_wout, c_pc, c_readable, c_rout, c_rerr,
                   c_lout, c_lerr, p_log>>
    /\ UNCHANGED notRun

\* the background subprocess has written all its lines and exits
ChildExit ==
    /\ procState[1] = "alive" /\ p_pc # "entry"
    /\ p_wout = Len(p_out) /\ p_werr = Len(p_err)
    /\ procState' = [procState EXCEPT ![1] = "exited"]
    /\ UNCHANGED <<processes, background, capture_output, p_spawn, p_rc, p_out, p_err,
                   p_pc, p_ret, p_wout, p_werr, c_pc, c_readable, c_rout, c_rerr, c_lout,
                   c_lerr, p_log>>
    /\ UNCHANGED notRun

\* while process.poll() is None:
CapPoll ==
    /\ c_pc = "poll"
    /\ c_pc' = IF procState[1] = "alive" THEN "select" ELSE "drain_out"
    /\ UNCHANGED <<processes, procState, background, capture_output, p_spawn, p_rc,
                   p_out, p_err, p_pc, p_ret, p_wout, p_werr, c_readable, c_rout, c_rerr,
                   c_lout, c_lerr, p_log>>
    /\ UNCHANGED notRun

\* readable, _, _ = select.select(ready_fds, [], [], 0.1): a pipe is readable
\* when it holds data or its writer has gone (end of file)
CapSelect ==
    /\ c_pc = "select"
    /\ c_readable' =
         {st \in {"stdout", "stderr"} :
             \/ procState[1] = "exited"
             \/ st = "stdout" /\ c_rout < p_wout
             \/ st = "stderr" /\ c_rerr < p_werr}
    /\ c_pc' = "read"
    /\ UNCHANGED <<processes, procState, background, capture_output, p_spawn, p_rc,
                   p_out, p_err, p_pc, p_ret, p_wout, p_werr, c_rout, c_rerr, c_lout,
                   c_lerr, p_log>>
    /\ UNCHANGED notRun

\* for fd in readable: line = stream.readline(); if line: log it, stripped.
\* readline() fills the stream's buffer with what the pipe holds and hands
\* out one line; at end of file it hands out '' and nothing is logged.
CapRead ==
    /\ c_pc = "read"
    /\ IF c_readable = {}
         THEN c_pc' = "poll" /\ UNCHANGED <<c_readable, c_rout, c_rerr, c_lout, c_lerr, p_log>>
         ELSE IF "stdout" \in c_readable
           THEN /\ c_readable' = c_readable \ {"stdout"}
                /\ c_rout' = IF c_lout = c_rout THEN p_wout ELSE c_rout
                /\ IF c_lout < c_rout'
                     THEN /\ c_lout' = c_lout + 1
                          /\ p_log' = Append(p_log,
                                 Record("info", "service", "stdout", c_lout + 1))
                     ELSE UNCHANGED <<c_lout, p_log>>
                /\ UNCHANGED <<c_pc, c_rerr, c_lerr>>
           ELSE /\ c_readable' = c_readable \ {"stderr"}
                /\ c_rerr' = IF c_lerr = c_rerr THEN p_werr ELSE c_rerr
                /\ IF c_lerr < c_rerr'
                     THEN /\ c_lerr' = c_lerr + 1
                          /\ p_log' = Append(p_log,
                                 Record("warning", "service", "stderr", c_lerr + 1))
                     ELSE UNCHANGED <<c_lerr, p_log>>
                /\ UNCHANGED <<c_pc, c_rout, c_lout>>
    /\ UNCHANGED <<processes, procState, background, capture_output, p_spawn, p_rc,
                   p_out, p_err, p_pc, p_ret, p_wout, p_werr>>
    /\ UNCHANGED notRun

\* remaining_stdout = process.stdout.read(); its non-blank lines are logged
CapDrainOut ==
    /\ c_pc = "drain_out"
    /\ c_rout' = p_wout /\ c_lout' = p_wout
    /\ p_log' = p_log \o LogNonBlank(p_out, c_lout, p_wout, "info", "service", "stdout")
    /\ c_pc' = "drain_err"
    /\ UNCHANGED <<processes, procState, background, capture_output, p_spawn, p_rc,
                   p_out, p_err, p_pc, p_ret, p_wout, p_werr, c_readable, c_rerr, c_lerr>>
    /\ UNCHANGED notRun

\* remaining_stderr = process.stderr.read(); its non-blank lines are logged
CapDrainErr ==
    /\ c_pc = "drain_err"
    /\ c_rerr' = p_werr /\ c_lerr' = p_werr
    /\ p_log' = p_log \o LogNonBlank(p_err, c_lerr, p_werr, "warning", "service", "stderr")
    /\ c_pc' = "done"
    /\ UNCHANGED <<processes, procState, background, capture_output, p_spawn, p_rc,
                   p_out, p_err, p_pc, p_ret, p_wout, p_werr, c_readable, c_rout, c_lout>>
    /\ UNCHANGED notRun

NextRun ==
    \/ RunBackground \/ RunAppend \/ RunThread \/ RunForeground
    \/ ChildWriteOut \/ ChildWriteErr \/ ChildExit
    \/ CapPoll \/ CapSelect \/ CapRead \/ CapDrainOut \/ CapDrainErr


\* ------------------------------------------------------ BaseService.reload
ReloadInit ==
    /\ rl_pc = "idle"
    /\ rl_calls = <<>>
    /\ rl_cfg = "none"
    /\ rl_ret = "none"
    /\ nReloads = 0

\* reload() is entered: logger.info("Reloading service configuration")
ReloadCall ==
    /\ rl_pc = "idle"
    /\ nReloads < MaxReloads
    /\ nReloads' = nReloads + 1
    /\ rl_pc' = "load"
    /\ rl_calls' = <<>>
    /\ rl_cfg' = "none"
    /\ UNCHANGED <<rl_ret, svcVars>>
    /\ UNCHANGED notReload

\* self.config.load_environment_variables()
ReloadLoad ==
    /\ rl_pc = "load"
    /\ config' = load_environment_variables(service, env)
    /\ rl_calls' = Append(rl_calls, "load_environment_variables")
    /\ rl_pc' = "configure"
    /\ UNCHANGED <<service, env, running, shutdown_requested, processes, procState,
                   sent, hc_running, stack, ret, startRet, log, nSignals, nStopCalls,
                   everRunning, removed, earlySignal>>
    /\ UNCHANGED <<rl_cfg, rl_ret, nReloads>>
    /\ UNCHANGED notReload

ReloadConfigure_Restarts ==
    /\ rl_pc = "configure"
    /\ \E outcome \in {"true", "false", "raise"} :
         /\ rl_cfg' = outcome
         /\ rl_ret' = IF outcome = "true" THEN "True" ELSE "False"
    /\ rl_calls' = Append(rl_calls, "configure")
    /\ log' = log \o <<"configure", "stop_service", "start_service">>
    /\ rl_pc' = "idle"
    /\ UNCHANGED <<service, env, config, running, shutdown_requested, processes,
                   procState, sent, hc_running, stack, ret, startRet, nSignals,
                   nStopCalls, everRunning, removed, earlySignal>>
    /\ UNCHANGED nReloads
    /\ UNCHANGED notReload

\* if not self.configure(): return False; return True;
\* except Exception: return False
ReloadConfigure ==
    /\ rl_pc = "configure"
    /\ \E outcome \in {"true", "false", "raise"} :
         /\ rl_cfg' = outcome
         /\ rl_ret' = IF outcome = "true" THEN "True" ELSE "False"
    /\ rl_calls' = Append(rl_calls, "configure")
    /\ log' = Append(log, "configure")
    /\ rl_pc' = "idle"
    /\ UNCHANGED <<service, env, config, running, shutdown_requested, processes,
                   procState, sent, hc_running, stack, ret, startRet, nSignals,
                   nStopCalls, everRunning, removed, earlySignal>>
    /\ UNCHANGED nReloads
    /\ UNCHANGED notReload

\* the lifecycle of the main thread, no signal arriving, and reload() called
\* from another thread at any point of it
NextReload ==
    \/ CallStart
    \/ StartValidate \/ StartConfigure \/ StartHealth \/ StartService
    \/ StartSetRunning
    \/ LoopTest \/ LoopHealth \/ LoopScan \/ LoopRemove \/ LoopFinally
    \/ StartReturn
    \/ StopCheck \/ StopMark \/ StopHealth \/ StopService \/ StopTerminate
    \/ StopWait \/ StopClear
    \/ ProcExit
    \/ ReloadCall \/ ReloadLoad \/ ReloadConfigure


\* --------------------- HealthChecker.start / stop and the listener thread
EndpointInit ==
    /\ e_pc = "init"
    /\ e_shutdown_request = FALSE
    /\ e_is_shut_down = FALSE
    /\ e_open = FALSE
    /\ w_pc = "none"
    /\ e_pending = 0
    /\ e_served = 0
    /\ e_servedAtStop = -1
    /\ e_starts = 0

\* HealthChecker.start, called on a checker that is not running (first, or
\* again after stop()): a new HTTPServer binds the port, the thread running
\* serve_forever is started, self.running = True; or binding fails and the
\* exception is raised to the caller
EpStart ==
    /\ e_pc \in {"init", "done"}
    /\ ~hc_running
    /\ e_starts < MaxEndpointStarts
    /\ e_starts' = e_starts + 1
    /\ \E bound \in BOOLEAN :
         IF bound
           THEN /\ e_open' = TRUE
                /\ w_pc' = "select"
                /\ hc_running' = TRUE
                /\ e_shutdown_request' = FALSE
                /\ e_is_shut_down' = FALSE
                /\ e_pc' = "started"
           ELSE /\ e_pc' = "failed"
                /\ UNCHANGED <<e_open, w_pc, hc_running, e_shutdown_request,
                               e_is_shut_down>>
    /\ e_servedAtStop' = -1
    /\ UNCHANGED <<e_pending, e_served>>
    /\ UNCHANGED notEndpoint

\* a client connects and sends a request
EpRequest ==
    /\ e_open
    /\ e_pending + e_served + (IF w_pc \in {"handling", "hung"} THEN 1 ELSE 0)
         < MaxRequests
    /\ e_pending' = e_pending + 1
    /\ UNCHANGED <<hc_running, e_pc, e_shutdown_request, e_is_shut_down, e_open, w_pc,
                   e_served, e_servedAtStop, e_starts>>
    /\ UNCHANGED notEndpoint

\* serve_forever: while not shutdown_request: select; if a request is ready,
\* handle it in this thread; on leaving the loop the flag is reset and the
\* event is set
WorkerSelect ==
    /\ w_pc = "select"
    /\ IF e_shutdown_request
         THEN /\ w_pc' = "exited"
              /\ e_shutdown_request' = FALSE
              /\ e_is_shut_down' = TRUE
              /\ UNCHANGED e_pending
         ELSE /\ e_open /\ e_pending > 0
              /\ e_pending' = e_pending - 1
              /\ w_pc' = "handling"
              /\ UNCHANGED <<e_shutdown_request, e_is_shut_down>>
    /\ UNCHANGED <<hc_running, e_pc, e_open, e_served, e_servedAtStop, e_starts>>
    /\ UNCHANGED notEndpoint

\* HealthCheckHandler.do_GET runs the probes in the listener thread: they
\* return and the response is written, or one of them does not return
WorkerHandle ==
    /\ w_pc = "handling"
    /\ \E returns \in BOOLEAN :
         IF returns
           THEN e_served' = e_served + 1 /\ w_pc' = "select"
           ELSE e_served' = e_served /\ w_pc' = "hung"
    /\ UNCHANGED <<hc_running, e_pc, e_shutdown_request, e_is_shut_down, e_open,
                   e_pending, e_servedAtStop, e_starts>>
    /\ UNCHANGED notEndpoint

\* HealthChecker.stop: if not self.running: return; else
\* self.http_server.shutdown() sets the request flag and waits for the event
EpStop ==
    /\ e_pc \in {"started", "failed"}
    /\ IF ~hc_running
         THEN /\ e_pc' = "done"
              /\ e_servedAtStop' = e_served
              /\ UNCHANGED e_shutdown_request
         ELSE /\ e_shutdown_request' = TRUE
              /\ e_pc' = "shutdown_wait"
              /\ UNCHANGED e_servedAtStop
    /\ UNCHANGED <<hc_running, e_is_shut_down, e_open, w_pc, e_pending, e_served,
                   e_starts>>
    /\ UNCHANGED notEndpoint

\* shutdown() returns once serve_forever has left its loop;
\* self.http_server.server_close() closes the listening socket
EpClose ==
    /\ e_pc = "shutdown_wait"
    /\ e_is_shut_down
    /\ e_open' = FALSE
    /\ e_pending' = 0
    /\ e_pc' = "join"
    /\ UNCHANGED <<hc_running, e_shutdown_request, e_is_shut_down, w_pc, e_served,
                   e_servedAtStop, e_starts>>
    /\ UNCHANGED notEndpoint

\* self.server_thread.join(timeout=5) returns when the thread has ended or
\* after five seconds; self.running = False; stop() returns
EpJoin ==
    /\ e_pc = "join"
    /\ hc_running' = FALSE
    /\ e_pc' = "done"
    /\ e_servedAtStop' = e_served
    /\ UNCHANGED <<e_shutdown_request, e_is_shut_down, e_open, w_pc, e_pending,
                   e_served, e_starts>>
    /\ UNCHANGED notEndpoint

NextEndpoint ==
    \/ EpStart \/ EpRequest \/ WorkerSelect \/ WorkerHandle
    \/ EpStop \/ EpClose \/ EpJoin

Next ==
    \/ CallStart \/ CallStop
    \/ StartValidate \/ StartConfigure \/ StartHealth \/ StartService
    \/ StartSetRunning
    \/ LoopTest \/ LoopHealth \/ LoopScan \/ LoopRemove \/ LoopFinally
    \/ StartReturn
    \/ StopCheck \/ StopMark \/ StopHealth \/ StopService \/ StopTerminate
    \/ StopWait \/ StopClear
    \/ SignalDeliver \/ HandlerStop \/ HandlerReturn
    \/ ProcExit

\* a service object that was constructed and is never started
SvcIdle ==
    /\ service = "dns"
    /\ env = [k \in get_required_config_vars("dns") |-> "set"]
    /\ SvcInit

\* a health checker that is constructed and never queried
HealthIdle ==
    /\ probeResult = [q \in Probes |-> "pass"]
    /\ HealthInit

\* no terminate_process_gracefully call is under way
TermIdle ==
    /\ t_timeout = 0
    /\ t_proc = "gone"
    /\ t_ignores = FALSE
    /\ TermInit

\* no run_command_with_retry call is under way
RetryIdle ==
    /\ r_outcomes = [i \in 1..(MaxRetries + 1) |-> "ok"]
    /\ r_retries = 0
    /\ r_delay = 0
    /\ RetryInit

\* no run_subprocess call is under way
RunIdle ==
    /\ background = FALSE
    /\ capture_output = TRUE
    /\ p_spawn = "ok"
    /\ p_rc = 0
    /\ p_out = <<>>
    /\ p_err = <<>>
    /\ RunInit

\* reload() is never called
ReloadIdle == ReloadInit

\* the health endpoint is never started
EndpointIdle == EndpointInit

Init ==
    /\ SvcInit /\ HealthIdle /\ TermIdle /\ RetryIdle /\ RunIdle /\ ReloadIdle
    /\ EndpointIdle
Spec == Init /\ [][Next]_vars

InitHealth == SvcIdle /\ HealthInit /\ TermIdle /\ RetryIdle /\ RunIdle /\ ReloadIdle /\ EndpointIdle
SpecHealth == InitHealth /\ [][NextHealth]_vars

InitTerm == SvcIdle /\ HealthIdle /\ TermInit /\ RetryIdle /\ RunIdle /\ ReloadIdle /\ EndpointIdle
SpecTerm == InitTerm /\ [][NextTerm]_vars

InitRetry ==
    /\ SvcIdle /\ HealthIdle /\ TermIdle /\ RunIdle /\ ReloadIdle /\ EndpointIdle
    /\ r_outcomes \in [1..(MaxRetries + 1) -> RunOutcomes]
    /\ r_retries \in 0..MaxRetries
    /\ r_delay \in {0, 1}
    /\ RetryInit
SpecRetry == InitRetry /\ [][NextRetry]_vars

SeqsUpTo(S, n) == UNION {[1..k -> S] : k \in 0..n}

InitRun ==
    /\ SvcIdle /\ HealthIdle /\ TermIdle /\ RetryIdle /\ ReloadIdle /\ EndpointIdle
    /\ background \in BOOLEAN
    /\ capture_output \in BOOLEAN
    /\ p_spawn \in {"ok", "fail"}
    /\ p_rc \in {0, 1}
    /\ p_out \in SeqsUpTo(LineKinds, MaxLines)
    /\ p_err \in SeqsUpTo(LineKinds, MaxLines)
    /\ RunInit
SpecRun == InitRun /\ [][NextRun]_vars

InitReload ==
    /\ SvcInit /\ HealthIdle /\ TermIdle /\ RetryIdle /\ RunIdle /\ ReloadInit
    /\ EndpointIdle
SpecReload == InitReload /\ [][NextReload]_vars

\* the threads are scheduled: a step that stays possible is taken
InitEndpoint ==
    /\ SvcIdle /\ HealthIdle /\ TermIdle /\ RetryIdle /\ RunIdle /\ ReloadIdle
    /\ EndpointInit
SpecEndpoint == InitEndpoint /\ [][NextEndpoint]_vars /\ WF_vars(NextEndpoint)

\* ------------------------------------------------------------------ claims
Count(seq, x) == Cardinality({k \in 1..Len(seq) : seq[k] = x})

\* index of the first occurrence of x in seq, 0 when there is none
First(seq, x) ==
    IF InSeq(seq, x) THEN CHOOSE k \in 1..Len(seq) :
                            seq[k] = x /\ \A j \in 1..(k - 1) : seq[j] # x
    ELSE 0

\* some required key does not resolve to a non-empty value
MissingRequired ==
    \E k \in get_required_config_vars(service) : config[k] \in {"none", "empty"}

\* C1: with a required key that does not resolve to a non-empty value, start()
\* returns False (it never raises), and configure(), start_service() and the
\* health endpoint are never invoked and no process is spawned or tracked.
C1_MissingKeyStartFails ==
    MissingRequired =>
        /\ startRet \in {"none", "False"}
        /\ Count(log, "configure") = 0
        /\ Count(log, "start_service") = 0
        /\ Count(log, "health_start") = 0
        /\ ~hc_running
        /\ processes = <<>>
        /\ \A p \in ProcIds : procState[p] = "none"

C1_Witness == MissingRequired /\ startRet = "False" /\ ret.at = "entry"

\* C2 (as claimed): the health listener is never shut down before
\* stop_service() has been invoked.
C2_StopServiceBeforeHealthStop ==
    \A i \in 1..Len(log) :
        log[i] = "health_stop" => \E j \in 1..(i - 1) : log[j] = "stop_service"

\* C2 (amended): in stop() on a running service the health listener is shut
\* down first, then stop_service() is invoked, then the remaining tracked
\* processes are terminated: stop_service() is never invoked before the
\* listener has been shut down, and no process is terminated before
\* stop_service() has been invoked.
C2_HealthStopBeforeStopService ==
    \A i \in 1..Len(log) :
        /\ log[i] = "stop_service" => \E j \in 1..(i - 1) : log[j] = "health_stop"
        /\ log[i] = "terminate" => \E j \in 1..(i - 1) : log[j] = "stop_service"

C2_Witness ==
    /\ First(log, "health_stop") > 0
    /\ First(log, "health_stop") < First(log, "stop_service")
    /\ First(log, "stop_service") < First(log, "terminate")
    /\ ret.fn = "stop" /\ ret.at = "clear"

\* C3: when stop() returns from a teardown of a running service, whatever
\* stop_service() did, the health endpoint is stopped, no tracked process is
\* still running and the tracked set is empty.
C3_TeardownCompletes ==
    (ret.fn = "stop" /\ ret.at # "entry") =>
        /\ ~hc_running
        /\ processes = <<>>
        /\ \A p \in ProcIds : procState[p] # "alive"

\* C4: a stop() call on a service that is not running returns True at once
\* and changes nothing: running, shutdown_requested, the tracked set, the
\* processes, the signals sent, the health endpoint and the lifecycle log.
C4_StopWhenNotRunningIsNoOp ==
    [][(/\ Active("stop", "entry")
        /\ ~running
        /\ stack' # stack
        /\ Len(stack') <= Len(stack))
       => (/\ stack' = Popped
           /\ ret' = [fn |-> "stop", val |-> "True", at |-> "entry"]
           /\ UNCHANGED <<running, shutdown_requested, processes, procState,
                          sent, hc_running, log>>)]_vars

\* stop() was called twice in a row on a service that was never started
C4_Witness ==
    /\ nStopCalls = 2
    /\ startRet = "none"
    /\ stack = <<>>
    /\ ret = [fn |-> "stop", val |-> "True", at |-> "entry"]
    /\ log = <<>>

\* C5: for a service that was running, wherever the signals are delivered,
\* stop_service() is invoked exactly once in total, and when start() has
\* returned the health endpoint is stopped.
C5_StopServiceExactlyOnce ==
    /\ Count(log, "stop_service") <= 1
    /\ (everRunning /\ startRet # "none") =>
           (Count(log, "stop_service") = 1 /\ ~hc_running)

\* ---- HealthChecker
\* every registered probe passes now
AllPass ==
    \A n \in DOMAIN health_checks : probeResult[health_checks[n]] = "pass"

StatusOps == {"GET /status", "get_detailed_status"}
Registered(n) == n \in DOMAIN health_checks
ResultOf(n) == probeResult[health_checks[n]]

\* the checks map has exactly the registered names, each probe was called once
\* and is reported with its own result, a raising one as a failing entry
ChecksReported ==
    /\ DOMAIN response.checks = DOMAIN health_checks
    /\ \A k \in 1..Len(CheckNames) :
         response.calls[k] = IF Registered(CheckNames[k]) THEN 1 ELSE 0
    /\ \A n \in DOMAIN health_checks :
         /\ ResultOf(n) = "pass" =>
               response.checks[n] = [status |-> "pass", healthy |-> TRUE]
         /\ ResultOf(n) = "fail" =>
               response.checks[n] = [status |-> "fail", healthy |-> FALSE]
         /\ ResultOf(n) = "raise" =>
               /\ response.checks[n].status \in {"fail", "error"}
               /\ ~response.checks[n].healthy

\* C6: when some registered probes raise, the status document has one entry
\* per registered check, each raising probe's entry is a failing one, the
\* other probes are reported with their own results, and the document's
\* overall healthy field is false.
C6_RaisingProbeMakesStatusUnhealthy ==
    (response.op \in StatusOps /\ \E n \in DOMAIN health_checks : ResultOf(n) = "raise")
        => (ChecksReported /\ response.healthy = FALSE)

\* C7: the healthy field of every status document equals the logical AND of
\* the probe results evaluated for that document.
C7_StatusHealthyIsCurrent ==
    response.op \in StatusOps => response.healthy = AllPass

\* C8: GET /health answers 200 "healthy" exactly when every registered probe
\* passes at request time and 503 "unhealthy" otherwise, and GET /status
\* lists every registered check name with pass or fail as its probe answers.
C8_HealthRouteVerdict ==
    /\ response.op = "GET /health" =>
          IF AllPass THEN response.code = 200 /\ response.status = "healthy"
          ELSE response.code = 503 /\ response.status = "unhealthy"
    /\ response.op = "GET /status" => (response.code = 200 /\ ChecksReported)

\* the default checks pass, a custom check fails, and GET /health said 503
C8_Witness ==
    /\ response.op = "GET /health"
    /\ response.code = 503
    /\ ResultOf("log_directory") = "pass"
    /\ health_checks["log_directory"] = "check_log_directory"
    /\ ResultOf("config_directory") = "pass"
    /\ Registered("custom")
    /\ ResultOf("custom") = "fail"

\* C9: is_healthy() calls every registered probe exactly once, also after an
\* earlier one failed or raised, returns True if and only if no probe failed
\* or raised, stores that verdict and sets last_health_check to the time of
\* the call.
C9_IsHealthyRunsEveryProbe ==
    response.op = "is_healthy" =>
        /\ \A k \in 1..Len(CheckNames) :
             response.calls[k] = IF Registered(CheckNames[k]) THEN 1 ELSE 0
        /\ response.val = AllPass
        /\ health_status = response.val
        /\ last_health_check = clock

\* the first check fails, a later one raises and was still called, and the
\* call moved last_health_check on from an earlier time
C9_Witness ==
    /\ response.op = "is_healthy"
    /\ ResultOf("log_directory") = "fail"
    /\ Registered("custom")
    /\ ResultOf("custom") = "raise"
    /\ response.calls[Index("custom")] = 1
    /\ ~response.val
    /\ last_health_check = clock
    /\ clock > 1

Runs == Count(r_trace, "run")

\* the command fails k times with a non-zero exit status and then succeeds
\* (k = MaxRetries + 1: it fails on every invocation the bound allows)
FailsThenSucceeds(k) ==
    /\ \A i \in 1..k : r_outcomes[i] = "exit"
    /\ k < MaxRetries + 1 => r_outcomes[k + 1] = "ok"

\* every time.sleep lies between two subprocess.run calls
SleepOnlyBetweenAttempts ==
    \A i \in 1..Len(r_trace) :
        r_trace[i] = "sleep" =>
            /\ i > 1 /\ r_trace[i - 1] = "run"
            /\ i < Len(r_trace) /\ r_trace[i + 1] = "run"

\* C11: for a command that fails k times and then succeeds,
\* run_command_with_retry with k <= retries returns True after exactly k+1
\* invocations, and with k > retries returns False after exactly retries+1
\* invocations; a sleep is taken only between two consecutive attempts, never
\* before the first or after the last.
C11_RetryUntilSuccess ==
    r_pc = "done" =>
        \A k \in 0..(MaxRetries + 1) :
            FailsThenSucceeds(k) =>
                /\ k <= r_retries => r_ret = "True" /\ Runs = k + 1
                /\ k > r_retries => r_ret = "False" /\ Runs = r_retries + 1
                /\ SleepOnlyBetweenAttempts

C11_Witness ==
    /\ r_pc = "done" /\ r_retries = 2 /\ r_delay = 1
    /\ FailsThenSucceeds(2)
    /\ r_ret = "True"
    /\ r_trace = <<"run", "sleep", "run", "sleep", "run">>

\* C12: run_command_with_retry returns False only after all retries+1
\* attempts have been made, whatever the way an attempt fails.
C12_FalseOnlyAfterAllAttempts ==
    (r_pc = "done" /\ r_ret = "False") => Runs = r_retries + 1

\* ---- run_subprocess and capture_subprocess_logs
LoggedAs(level, stream, idx) ==
    Cardinality({k \in 1..Len(p_log) :
        p_log[k] = Record(level, "service", stream, idx)})

CountLevel(level) ==
    Cardinality({k \in 1..Len(p_log) : p_log[k].level = level})

\* C13: for a background subprocess that writes N lines to stdout and M lines
\* to stderr and then exits, once the capture worker has finished exactly N
\* lines were logged at info level and exactly M at warning level, each tagged
\* with the service name, no line dropped or logged twice, for every
\* interleaving of the writes and the exit with the worker's steps.
C13_CaptureLogsEveryLineOnce ==
    c_pc = "done" =>
        /\ CountLevel("info") = Len(p_out)
        /\ CountLevel("warning") = Len(p_err)
        /\ \A i \in 1..Len(p_out) : LoggedAs("info", "stdout", i) = 1
        /\ \A i \in 1..Len(p_err) : LoggedAs("warning", "stderr", i) = 1

\* what does hold: every line that is not blank is logged exactly once, at the
\* level of its stream and tagged with the service name, and a blank line is
\* logged at most once
CaptureLogsEveryNonBlankLineOnce ==
    c_pc = "done" =>
        /\ \A i \in 1..Len(p_out) :
              IF p_out[i] = "blank" THEN LoggedAs("info", "stdout", i) <= 1
              ELSE LoggedAs("info", "stdout", i) = 1
        /\ \A i \in 1..Len(p_err) :
              IF p_err[i] = "blank" THEN LoggedAs("warning", "stderr", i) <= 1
              ELSE LoggedAs("warning", "stderr", i) = 1
        /\ \A k \in 1..Len(p_log) : p_log[k].tag = "service"

\* C17: if creating the subprocess fails, run_subprocess in foreground and in
\* background mode returns False without raising, adds no entry to
\* self.processes and starts no capture worker.
C17_SpawnFailureReturnsFalse ==
    p_spawn = "fail" =>
        /\ processes = <<>>
        /\ c_pc = "idle"
        /\ p_ret \in {"none", "False"}
        /\ p_pc = "done" => p_ret = "False"

C17_Witness ==
    p_spawn = "fail" /\ background /\ capture_output /\ p_pc = "done" /\ p_ret = "False"

\* ---- service_loop
LoopRaised == \E i \in 1..Len(stack) : stack[i].exc
InStop == \E i \in 1..Len(stack) : stack[i].fn = "stop"

\* C14: when a tracked daemon exits while the service is running, the loop
\* removes it from self.processes and the service stays running: as long as
\* no signal arrived and nothing raised in the loop, running is true and
\* neither stop() nor stop_service() is invoked; start_service() and
\* configure() are never invoked a second time.
C14_DaemonExitKeepsRunning ==
    /\ Count(log, "start_service") <= 1
    /\ Count(log, "configure") <= 1
    /\ \A p \in ProcIds :
          removed[p] > 0 => procState[p] = "exited" /\ ~InSeq(processes, p)
    /\ (everRunning /\ nSignals = 0 /\ ~LoopRaised /\ startRet = "none") =>
          /\ running
          /\ ~InStop
          /\ ~InSeq(log, "stop_service")

C14_Witness ==
    /\ Active("start", "loop_test")
    /\ removed[1] = 1 /\ processes = <<>>
    /\ running /\ nSignals = 0 /\ ~LoopRaised
    /\ log = <<"configure", "health_start", "start_service">>

\* C15: while running, a health_check() call that returns False changes no
\* supervisor state: running, shutdown_requested, the tracked processes, the
\* health endpoint and the lifecycle log are as before, stop() is not called,
\* the loop goes on to the process scan and, unless a signal arrives, to the
\* next pass.
C15_FailedHealthCheckChangesNothing ==
    /\ [](\A i \in 1..Len(stack) :
            (stack[i].fn = "start" /\ stack[i].hc = "false" /\ nSignals = 0) =>
                /\ running /\ ~shutdown_requested /\ ~InStop
                /\ stack[i].pc \in {"loop_scan", "loop_remove", "loop_test"})
    /\ [][(/\ Active("start", "loop_health")
           /\ Len(stack') = Len(stack)
           /\ stack'[Len(stack')].hc = "false")
          => /\ running' = running
             /\ shutdown_requested' = shutdown_requested
             /\ processes' = processes
             /\ procState' = procState
             /\ sent' = sent
             /\ hc_running' = hc_running
             /\ log' = log
             /\ stack'[Len(stack')].pc = "loop_scan"
             /\ SubSeq(stack', 1, Len(stack') - 1) = Popped]_vars

C15_Witness ==
    /\ Active("start", "loop_test")
    /\ Top.hc = "false"
    /\ running /\ ~shutdown_requested /\ nSignals = 0 /\ processes # <<>>

\* a scan of service_loop has polled every entry of its copy
ScanDone(f) == f.fn = "start" /\ f.pc = "loop_scan" /\ f.i > Len(f.snap)

\* C19: at the end of each pass's scan every entry still in self.processes
\* was observed alive (poll() is None) in that scan; an entry observed exited
\* is removed in that same pass, never appears in a later pass, and is removed
\* at most once.
C19_TrackedProcessInvariant ==
    /\ \A p \in ProcIds : removed[p] <= 1
    /\ \A p \in ProcIds : removed[p] > 0 => ~InSeq(processes, p)
    /\ \A i \in 1..Len(stack) :
          ScanDone(stack[i]) =>
              /\ \A k \in 1..Len(processes) : processes[k] \in stack[i].alive
              /\ \A k \in 1..Len(stack[i].snap) :
                    stack[i].snap[k] \notin stack[i].alive
                        => ~InSeq(processes, stack[i].snap[k])

C19_Witness ==
    /\ Active("start", "loop_scan") /\ ScanDone(Top)
    /\ Top.snap = <<1>> /\ Top.alive = {}
    /\ removed[1] = 1 /\ processes = <<>>
    /\ running

\* ---- required keys and defaults
AbsentRequired ==
    \E k \in get_required_config_vars(service) : env[k] = "absent"

\* C16: a required key that is absent from the environment is never satisfied
\* by a default value: validation in start() fails whenever a required key is
\* missing from the environment, so configure() is never reached and start()
\* does not return True.
C16_AbsentRequiredKeyFailsValidation ==
    AbsentRequired =>
        /\ Count(log, "configure") = 0
        /\ startRet \in {"none", "False"}

\* ---- reload
\* C18: reload() never restarts or stops the daemon: each of its steps leaves
\* running, shutdown_requested, the tracked processes, the health endpoint
\* and the main thread alone; a call invokes configure() exactly once and
\* neither start_service() nor stop_service(), and returns False when
\* configure() returns False or raises.
C18_ReloadOnlyReconfigures ==
    /\ [](rl_ret # "none" /\ rl_pc = "idle" =>
            /\ rl_calls = <<"load_environment_variables", "configure">>
            /\ rl_ret = (IF rl_cfg = "true" THEN "True" ELSE "False"))
    /\ [][rl_pc' # rl_pc =>
            /\ running' = running
            /\ shutdown_requested' = shutdown_requested
            /\ processes' = processes
            /\ procState' = procState
            /\ sent' = sent
            /\ hc_running' = hc_running
            /\ stack' = stack
            /\ \/ log' = log
               \/ rl_pc = "configure" /\ log' = Append(log, "configure")]_vars

C18_Witness ==
    /\ rl_pc = "idle" /\ rl_ret = "False" /\ rl_cfg = "raise"
    /\ running /\ hc_running /\ processes # <<>>
    /\ Active("start", "loop_scan")

\* ---- HealthChecker.stop
\* C20: HealthChecker.stop() always returns, also when the listener thread is
\* serving a request whose probe does not return; after it returns the
\* endpoint is marked not running and serves no further requests.
C20_EndpointStopReturns ==
    /\ [](e_pc = "shutdown_wait" => <>(e_pc = "done"))
    /\ [](e_pc = "done" => ~hc_running /\ e_served = e_servedAtStop)

\* what does hold: once stop() has returned the endpoint is marked not
\* running, the listener has left serve_forever and nothing more is served
EndpointStoppedServesNothing ==
    e_pc = "done" =>
        /\ ~hc_running
        /\ ~e_open
        /\ w_pc \in {"none", "exited"}
        /\ e_served = e_servedAtStop

\* ---- readiness
\* C21: with the default readiness rule is_ready() returns the verdict
\* is_healthy() returns on the same probe results, and the ready field of
\* every status document equals that document's healthy field.
C21_ReadyEqualsHealthy ==
    /\ response.op = "is_ready" => response.val = AllPass
    /\ response.op \in StatusOps => response.ready = response.healthy

\* what does hold: is_ready() answers as is_healthy() does, and the ready
\* field of a status document is always false
ReadyFieldNeverSet ==
    /\ response.op = "is_ready" => response.val = AllPass
    /\ response.op \in StatusOps => response.ready = FALSE
    /\ ready_status = FALSE

\* ---- the order of start() and the teardown of stop()
StartSteps == <<"configure", "health_start", "start_service">>
StartLog == SelectSeq(log, LAMBDA e : e \in {"configure", "health_start", "start_service"})
LoopPcs == {"loop_test", "loop_health", "loop_scan", "loop_remove", "finally",
            "after_loop"}

\* C22: in every execution of start() the steps occur only in the order
\* validate, configure(), health endpoint start, start_service(), monitoring
\* loop: configure() only after validation succeeded, the endpoint only after
\* configure(), start_service() only after the endpoint has bound its port,
\* running and the loop only after start_service(); a step that fails makes
\* start() return False with no later step executed.
C22_StartOrder ==
    /\ StartLog = SubSeq(StartSteps, 1, Len(StartLog))
    /\ InSeq(log, "configure") => validate_configuration
    /\ InSeq(log, "start_service") => InSeq(log, "health_start")
    /\ running => everRunning
    /\ everRunning => StartLog = StartSteps
    /\ \A i \in 1..Len(stack) :
          stack[i].fn = "start" =>
              /\ stack[i].pc = "health_start" => StartLog = <<"configure">>
              /\ stack[i].pc = "start_service" =>
                    StartLog = <<"configure", "health_start">>
              /\ stack[i].pc = "set_running" => StartLog = StartSteps /\ ~everRunning
              /\ stack[i].pc \in LoopPcs => everRunning
    /\ (ret.fn = "start" /\ ret.at # "after_loop") =>
          /\ ret.val = "False"
          /\ ~everRunning /\ ~running
          /\ ret.at = "entry" => StartLog = <<>>
          /\ ret.at = "configure" => StartLog = <<"configure">>
          /\ ret.at = "health_start" => StartLog = <<"configure">> /\ ~hc_running
          /\ ret.at = "start_service" => StartLog = StartSteps

\* start_service() failed after the first two steps: start() returned False
\* there and the loop was never entered
C22_Witness ==
    /\ ret = [fn |-> "start", val |-> "False", at |-> "start_service"]
    /\ log = StartSteps
    /\ ~everRunning

\* C23: when stop() runs on a running service and returns True, every process
\* that was tracked has exited and self.processes is empty; in the teardown
\* a signal goes only to a process that is alive, SIGTERM first, and SIGKILL
\* only to a process that was still alive when the wait after its SIGTERM
\* timed out.
C23_TeardownEscalation ==
    /\ []((ret.fn = "stop" /\ ret.val = "True" /\ ret.at = "clear") =>
            /\ processes = <<>>
            /\ \A p \in ProcIds : procState[p] # "alive")
    /\ [](\A p \in ProcIds : sent[p] \in {<<>>, <<"TERM">>, <<"TERM", "KILL">>})
    /\ [][\A p \in ProcIds :
            sent'[p] # sent[p] =>
                /\ procState[p] = "alive"
                /\ \/ sent[p] = <<>> /\ sent'[p] = <<"TERM">>
                   \/ /\ sent[p] = <<"TERM">> /\ sent'[p] = <<"TERM", "KILL">>
                      /\ Active("stop", "wait") /\ Top.cur = p]_vars

C23_Witness ==
    /\ ret = [fn |-> "stop", val |-> "True", at |-> "clear"]
    /\ sent[1] = <<"TERM", "KILL">>
    /\ procState[1] = "exited"
    /\ processes = <<>>

\* C24: an exception raised by health_check() in a pass of the monitoring
\* loop is contained: the loop goes on, stop() is not triggered and start()
\* does not return False because of it.
C24_HealthCheckExceptionContained ==
    \A i \in 1..Len(stack) :
        (stack[i].fn = "start" /\ stack[i].hc = "raise") =>
            /\ stack[i].pc \in {"loop_scan", "loop_remove", "loop_test"}
            /\ ~stack[i].exc
            /\ nSignals = 0 => running /\ ~InStop

\* ---- the service's own probe
\* C25: the registry of the service's health checker contains the
\* service-specific probe in addition to the default checks; hence whenever
\* the service's health_check() returns False while the default checks pass,
\* is_healthy() is False and GET /health answers 503.
C25_ServiceProbeRegistered ==
    /\ response.op # "none" =>
          \A n \in DOMAIN ServiceHealthChecker_checks : Registered(n)
    /\ probeResult["check_service_health"] = "fail" =>
          /\ response.op = "is_healthy" => response.val = FALSE
          /\ response.op = "GET /health" => response.code = 503

\* C26: a signal handler that runs stop() inside the monitoring loop's scan
\* is harmless: when the loop comes to remove an exited entry (line 293) the
\* entry is still in self.processes, and the loop is never left by a fault
\* other than a raising health_check()
C26_ScanSurvivesSignalStop ==
    /\ Active("start", "loop_remove") => InSeq(processes, Top.snap[Top.i])
    /\ \A k \in 1..Len(stack) :
         (stack[k].fn = "start" /\ stack[k].exc) => stack[k].hc = "raise"

\* C27: the check registry only grows and the last writer wins: a step that
\* changes the registry keeps every name, changes the probe of at most one
\* name and answers no query; a query or an HTTP request leaves the registry
\* as it is; the two default names are always registered; and the verdict of
\* is_healthy() is the one of the probes registered last
C27_RegistryLastWriterWins ==
    /\ [](Registered("log_directory") /\ Registered("config_directory"))
    /\ [](response.op \in {"is_healthy", "is_ready"} => response.val = AllPass)
    /\ [][/\ DOMAIN health_checks \subseteq DOMAIN health_checks'
          /\ health_checks' # health_checks =>
                \E n \in DOMAIN health_checks' :
                    \A m \in DOMAIN health_checks \ {n} :
                        health_checks'[m] = health_checks[m]
          /\ response'.op # "none" => health_checks' = health_checks]_vars

\* log_directory was registered again with a probe that fails while the
\* default probe it replaced passes, a custom check was added, the other
\* default is untouched, and is_healthy() answered False
C27_Witness ==
    /\ health_checks["log_directory"] = "probe_b"
    /\ probeResult["probe_b"] = "fail"
    /\ probeResult["check_log_directory"] = "pass"
    /\ Registered("custom")
    /\ Registered("config_directory")
    /\ health_checks["config_directory"] = "check_config_directory"
    /\ response.op = "is_healthy"
    /\ response.val = FALSE

\* C28: whenever start() has returned False, nothing that call started is left
\* running: the health endpoint is not listening and no spawned process is
\* still alive or still tracked
C28_FailedStartLeavesNothing ==
    startRet = "False" =>
        /\ ~hc_running
        /\ processes = <<>>
        /\ \A p \in ProcIds : procState[p] # "alive"

\* C29: a signal delivered inside start() before self.running was set is not
\* lost: shutdown_requested stays set, and when start() has returned the
\* health endpoint is stopped, the tracked set is empty, and stop_service()
\* was invoked if start_service() was
C29_EarlySignalNotLost ==
    earlySignal =>
        /\ shutdown_requested
        /\ startRet # "none" =>
              /\ ~hc_running
              /\ processes = <<>>
              /\ InSeq(log, "start_service") => InSeq(log, "stop_service")

\* a signal delivered inside start() before self.running was set keeps
\* shutdown_requested set, and the body of the monitoring loop is never entered
EarlySignalSkipsLoopBody ==
    earlySignal =>
        /\ shutdown_requested
        /\ \A k \in 1..Len(stack) :
             stack[k].fn = "start" =>
                 stack[k].pc \notin {"loop_health", "loop_scan", "loop_remove"}

\* C30: when start() has returned True the monitoring loop has ended and
\* stop() has run to completion: running is false, stop_service() was
\* invoked, the health endpoint is stopped and the tracked set is empty
C30_TrueOnlyAfterCompleteStop ==
    startRet = "True" =>
        /\ ~running
        /\ InSeq(log, "stop_service")
        /\ ~hc_running
        /\ processes = <<>>

====
